---- MODULE Spec2Model ----
(***************************************************************************)
(* Model of savaki/customresource (handler.go): the Handler that decodes a *)
(* CloudFormation custom-resource request, calls the provisioning function *)
(* behind a recover() boundary and PUTs one status report to ResponseURL.  *)
(*                                                                         *)
(* Go strings are sequences of chunks.  A chunk is a run of valid UTF-8    *)
(* text, or one of the marked chunks below (an invalid byte, a malformed   *)
(* URL escape, ...), so that encoding and URL parsing act on the content.  *)
(***************************************************************************)
EXTENDS Integers, Sequences, FiniteSets, TLC

VARIABLES
    handler,    \* the Handler built by New: [fn, output, transport]
    pc,         \* pc[i]: position of invocation i inside Invoke
    payload,    \* payload[i]: the bytes handed to Invoke
    orig,       \* orig[i]: the Request value the caller encoded (test's req)
    req,        \* req[i]: Invoke's local req
    fnCalls,    \* fnCalls[i]: calls of h.fn made by invocation i
    fnDid,      \* fnDid[i]: what h.fn did when it was called
    resp,       \* resp[i]: safeInvoke's first result
    err,        \* err[i]: safeInvoke's second result
    input,      \* input[i]: the replyInput built by replySuccess/replyFailure
    httpResp,   \* httpResp[i]: the response RoundTrip returned
    ret,        \* ret[i]: what Invoke returned: [payload, err]
    output,     \* the writes h.output has received, in order
    puts,       \* the requests h.transport.RoundTrip has received, in order
    events,     \* events[i]: what invocation i has done so far, in order
    ctx         \* ctx[i]: the context of invocation i, and where Invoke
                \* stood when it was cancelled

vars == <<handler, pc, payload, orig, req, fnCalls, fnDid, resp, err, input,
          httpResp, ret, output, puts, events, ctx>>

-----------------------------------------------------------------------------
(* Bounds *)

MaxInvocations == 2

Invs == 1..MaxInvocations

-----------------------------------------------------------------------------
(* Strings *)

BadByte         == "<0xFF>"     \* a byte that is not valid UTF-8
ReplacementChar == "<U+FFFD>"   \* what encoding/json writes and reads for it
BadEscape       == "%zz"        \* a malformed percent escape
Space           == " "          \* insignificant JSON whitespace
BadToken        == "<?>"        \* a token that is not JSON

Empty == <<>>

Str(s) == <<s>>

\* strings.ToValidUTF8-like coercion done by encoding/json's string encoder
\* and by its unquote: every invalid byte becomes U+FFFD
CoerceUTF8(s) ==
    [k \in 1..Len(s) |-> IF s[k] = BadByte THEN ReplacementChar ELSE s[k]]

IsSpace(tok) == tok = Space

\* json.Compact: drops insignificant whitespace between tokens
Compact(raw) == SelectSeq(raw, LAMBDA tok : ~IsSpace(tok))

\* the scanner's verdict on a raw message
ValidJSON(raw) == Len(raw) > 0 /\ \A k \in 1..Len(raw) : raw[k] # BadToken

-----------------------------------------------------------------------------
(* Constants of handler.go *)

RequestTypeCreate == Str("Create")
RequestTypeUpdate == Str("Update")
RequestTypeDelete == Str("Delete")

StatusSuccess == Str("SUCCESS")
StatusFailed  == Str("FAILED")

-----------------------------------------------------------------------------
(* Values: nil pointers, errors, requests, responses *)

NilErr == [isNil |-> TRUE, kind |-> "nil", msg |-> Empty]

Error(kind, msg) == [isNil |-> FALSE, kind |-> kind, msg |-> msg]

\* err.Error()
ErrorString(e) == e.msg

Request(rt, url, stack, rid, rtype, logical, physical, props, old) ==
    [RequestType |-> rt, ResponseURL |-> url, StackId |-> stack,
     RequestId |-> rid, ResourceType |-> rtype, LogicalResourceId |-> logical,
     PhysicalResourceId |-> physical, ResourceProperties |-> props,
     OldResourceProperties |-> old]

\* var req Request
ZeroRequest ==
    Request(Empty, Empty, Empty, Empty, Empty, Empty, Empty, Empty, Empty)

StringFields ==
    {"RequestType", "ResponseURL", "StackId", "RequestId", "ResourceType",
     "LogicalResourceId", "PhysicalResourceId"}

RawFields == {"ResourceProperties", "OldResourceProperties"}

NilResp ==
    [isNil |-> TRUE, Data |-> <<>>, PhysicalResourceId |-> Empty,
     NoEcho |-> FALSE]

Response(data, physical, noEcho) ==
    [isNil |-> FALSE, Data |-> data, PhysicalResourceId |-> physical,
     NoEcho |-> noEcho]

\* the zero replyInput
ZeroReplyInput ==
    [Status |-> Empty, Reason |-> Empty, PhysicalResourceId |-> Empty,
     StackId |-> Empty, RequestId |-> Empty, LogicalResourceId |-> Empty,
     Data |-> <<>>]

NoHTTPResponse == [isNil |-> TRUE, Status |-> Empty, Body |-> Empty]

HTTPResponse(status, body) ==
    [isNil |-> FALSE, Status |-> status, Body |-> body]

NoReturn == [returned |-> FALSE, payload |-> "nil", err |-> NilErr]

Return(e) == [returned |-> TRUE, payload |-> "nil", err |-> e]

-----------------------------------------------------------------------------
(* encoding/json, as far as Request and replyInput use it *)

StrVal(s) == [t |-> "string", v |-> s]
RawVal(raw) == [t |-> "raw", v |-> raw]
NumVal(n) == [t |-> "number", v |-> Str(n)]

\* the members json.Marshal writes for a Request: the seven strings always,
\* the two json.RawMessage fields unless empty (`json:",omitempty"`)
PresentFields(r) ==
    StringFields \cup {f \in RawFields : Len(r[f]) > 0}

\* json.Marshal(req): strings are written as valid UTF-8, a RawMessage is
\* validated and compacted by the encoder
MarshalRequest(r) ==
    IF \E f \in RawFields : Len(r[f]) > 0 /\ ~ValidJSON(r[f])
    THEN [err |-> Error("marshal", Str("json: error calling MarshalJSON")),
          doc |-> [kind |-> "none", members |-> <<>>]]
    ELSE [err |-> NilErr,
          doc |-> [kind |-> "object",
                   members |->
                     [f \in PresentFields(r) |->
                        IF f \in StringFields
                        THEN StrVal(CoerceUTF8(r[f]))
                        ELSE RawVal(Compact(r[f]))]]]

\* checkValid: the whole payload is scanned before anything is stored
CheckValid(p) ==
    /\ p.kind # "syntax"
    /\ p.kind = "object" =>
         \A f \in DOMAIN p.members :
            p.members[f].t = "raw" => ValidJSON(p.members[f].v)

\* a member whose JSON type does not fit the Go field
Mistyped(p, f) ==
    /\ f \in DOMAIN p.members
    /\ f \in StringFields
    /\ p.members[f].t # "string"

\* DecodeField with the two json.RawMessage fields left out of the struct
DecodeFieldStringsOnly(p, f) ==
    IF f \notin DOMAIN p.members \/ Mistyped(p, f) \/ f \notin StringFields
    THEN Empty
    ELSE CoerceUTF8(p.members[f].v)

\* the value json.Unmarshal stores into field f
DecodeField(p, f) ==
    IF f \notin DOMAIN p.members \/ Mistyped(p, f) THEN Empty
    ELSE IF f \in StringFields THEN CoerceUTF8(p.members[f].v)
    ELSE p.members[f].v

\* Unmarshal with the *json.UnmarshalTypeError dropped
UnmarshalIgnoringTypes(p) ==
    IF ~CheckValid(p)
    THEN [err |-> Error("decode", Str("invalid character")), req |-> ZeroRequest]
    ELSE IF p.kind # "object"
    THEN [err |-> NilErr, req |-> ZeroRequest]
    ELSE [err |-> NilErr,
          req |-> [f \in StringFields \cup RawFields |-> DecodeField(p, f)]]

\* json.Unmarshal(payload, &req)
Unmarshal(p) ==
    IF ~CheckValid(p)
    THEN [err |-> Error("decode", Str("invalid character")), req |-> ZeroRequest]
    ELSE IF p.kind = "null"
    THEN [err |-> NilErr, req |-> ZeroRequest]
    ELSE IF p.kind # "object"
    THEN [err |-> Error("decode", Str("json: cannot unmarshal array into Go value of type customresource.Request")),
          req |-> ZeroRequest]
    ELSE [err |-> IF \E f \in StringFields : Mistyped(p, f)
                  THEN Error("decode", Str("json: cannot unmarshal number into Go struct field"))
                  ELSE NilErr,
          req |-> [f \in StringFields \cup RawFields |-> DecodeField(p, f)]]

\* a value json.Marshal cannot write (a channel, a func, NaN)
Unsupported == [t |-> "chan", v |-> Empty]

\* json.Marshal of the Data member: nil encodes as null, a map as an object
MarshalData(data) ==
    IF Len(data) = 0 THEN [t |-> "null", members |-> <<>>]
    ELSE [t |-> "object",
          members |-> [k \in 1..Len(data) |->
                         [k |-> CoerceUTF8(data[k].k),
                          v |-> StrVal(CoerceUTF8(data[k].v.v))]]]

\* json.Marshal(input) in reply: err only for an unsupported Data value
MarshalReply(in) ==
    IF \E k \in 1..Len(in.Data) : in.Data[k].v = Unsupported
    THEN [err |-> Error("marshal", Str("json: unsupported type")),
          body |-> [Status |-> Empty]]
    ELSE [err |-> NilErr,
          body |-> [Status |-> CoerceUTF8(in.Status),
                    Reason |-> CoerceUTF8(in.Reason),
                    PhysicalResourceId |-> CoerceUTF8(in.PhysicalResourceId),
                    StackId |-> CoerceUTF8(in.StackId),
                    RequestId |-> CoerceUTF8(in.RequestId),
                    LogicalResourceId |-> CoerceUTF8(in.LogicalResourceId),
                    Data |-> MarshalData(in.Data)]]

-----------------------------------------------------------------------------
(* net/url and net/http, as far as reply uses them *)

CtlChar == "<0x7F>"     \* an ASCII control character

\* url.Parse fails on a malformed escape and on a control character
ParseURLFails(u) ==
    \E k \in 1..Len(u) : u[k] \in {BadEscape, CtlChar}

\* http.NewRequest(http.MethodPut, req.ResponseURL, body)
NewRequest(url, body) ==
    IF ParseURLFails(url)
    THEN [err |-> Error("request", Str("parse: invalid URL")),
          httpReq |-> [Method |-> "none"]]
    ELSE [err |-> NilErr,
          httpReq |-> [Method |-> "PUT", URL |-> url,
                       ContentType |-> "application/json", Body |-> body]]

HasScheme(u) == Len(u) > 0 /\ u[1] \in {"http://", "https://"}

-----------------------------------------------------------------------------
(* Configuration: options, New *)

WithOutput(w) == [name |-> "WithOutput", arg |-> w]
WithTransport(t) == [name |-> "WithTransport", arg |-> t]

\* one Option applied to the options struct: a nil argument changes nothing
ApplyOption(opt, o) ==
    IF opt.arg = "nil" THEN o
    ELSE IF opt.name = "WithOutput" THEN [o EXCEPT !.output = opt.arg]
    ELSE [o EXCEPT !.transport = opt.arg]

RECURSIVE ApplyOptions(_, _)
ApplyOptions(opts, o) ==
    IF opts = <<>> THEN o
    ELSE ApplyOptions(Tail(opts), ApplyOption(Head(opts), o))

DefaultOptions == [output |-> "ioutil.Discard", transport |-> "http.DefaultTransport"]

New(fn, opts) ==
    LET options == ApplyOptions(opts, DefaultOptions)
    IN  [fn |-> fn, output |-> options.output, transport |-> options.transport]

\* the option lists handlers are built from
OptionLists ==
    { <<>>,
      <<WithTransport("rt")>>,
      <<WithTransport("rt"), WithOutput("os.Stdout")>>,
      <<WithOutput("nil"), WithTransport("nil"), WithOutput("os.Stdout")>> }

-----------------------------------------------------------------------------
(* The transport *)

ResponseOK       == HTTPResponse(Str("200 OK"), Empty)
ResponseDenied   == HTTPResponse(Str("403 Forbidden"), Str("<Error>AccessDenied</Error>"))
ResponseUnavailable == HTTPResponse(Str("503 Service Unavailable"), Str("Slow Down"))

TransportError(msg) == [err |-> Error("transport", Str(msg)), resp |-> NoHTTPResponse]
TransportResponse(r) == [err |-> NilErr, resp |-> r]

\* what h.transport.RoundTrip(httpReq) can return.  A caller-supplied
\* RoundTripper ("rt") may answer or fail for any request; the default
\* transport cannot send a request whose URL has no http(s) scheme.  The
\* server behind the default transport answers 200, 403 or 503; the
\* caller-supplied RoundTripper is followed for 200 and 403.
RoundTrip(transport, httpReq) ==
    IF transport = "http.DefaultTransport" /\ ~HasScheme(httpReq.URL)
    THEN {TransportError("unsupported protocol scheme")}
    ELSE IF transport = "http.DefaultTransport"
    THEN {TransportResponse(ResponseOK), TransportResponse(ResponseDenied),
          TransportResponse(ResponseUnavailable),
          TransportError("connection refused")}
    ELSE {TransportResponse(ResponseOK), TransportResponse(ResponseDenied),
          TransportError("connection refused")}

-----------------------------------------------------------------------------
(* The provisioning function: what a call of h.fn can do *)

Returns(r, e) == [kind |-> "return", resp |-> r, err |-> e, value |-> [t |-> "none", v |-> Empty, err |-> NilErr]]
Panics(v)     == [kind |-> "panic", resp |-> NilResp, err |-> NilErr, value |-> v]
NotCalled     == [kind |-> "none", resp |-> NilResp, err |-> NilErr, value |-> [t |-> "none", v |-> Empty, err |-> NilErr]]

PanicError(msg) == [t |-> "error", v |-> Empty, err |-> Error("runtime", msg)]
PanicString(s)  == [t |-> "string", v |-> s, err |-> NilErr]
PanicNil        == [t |-> "nil", v |-> Empty, err |-> NilErr]

DataEntry(k, v) == [k |-> Str(k), v |-> StrVal(Str(v))]

DataAttrs == << DataEntry("Secret", "hunter2") >>
DataChan  == << [k |-> Str("ch"), v |-> Unsupported] >>

FnOK       == Returns(Response(<<>>, Str("blah"), FALSE), NilErr)
FnOKData   == Returns(Response(DataAttrs, Str("id-1"), FALSE), NilErr)
FnOKNoEcho == Returns(Response(DataAttrs, Str("id-1"), TRUE), NilErr)
FnOKChan   == Returns(Response(DataChan, Str("id-2"), FALSE), NilErr)
FnErr      == Returns(NilResp, Error("provisioning", Str("boom")))
FnErrEmpty == Returns(NilResp, Error("provisioning", Empty))
FnErrBytes == Returns(NilResp, Error("provisioning", <<"exit ", BadByte>>))
FnNilNil   == Returns(NilResp, NilErr)
FnBoth     == Returns(Response(<<>>, Str("half"), FALSE), Error("provisioning", Str("late")))
FnPanicMap == Panics(PanicError(Str("assignment to entry in nil map")))
FnPanicStr == Panics(PanicString(Str("oops")))
FnPanicNil == Panics(PanicNil)

FnBehaviours ==
    {FnOK, FnOKData, FnOKNoEcho, FnOKChan, FnErr, FnErrEmpty, FnErrBytes,
     FnNilNil, FnBoth, FnPanicMap, FnPanicStr, FnPanicNil}

\* recover(): the value a panic carries.  panic(nil) is recovered as nil by
\* toolchains/settings before go1.21 (legacy) and as a *runtime.PanicNilError
\* since.
Recover(value, legacy) ==
    IF value.t = "nil" /\ ~legacy
    THEN PanicError(Str("panic called with nil argument"))
    ELSE value

\* fmt's %v of a recovered value
Render(value) == value.v

\* safeInvoke: `return h.fn(ctx, req)` under the deferred recover
SafeInvoke(b, legacy) ==
    IF b.kind = "return" THEN [resp |-> b.resp, err |-> b.err]
    ELSE LET r == Recover(b.value, legacy)
         IN  IF r.t = "nil" THEN [resp |-> NilResp, err |-> NilErr]
             ELSE IF r.t = "error" THEN [resp |-> NilResp, err |-> r.err]
             ELSE [resp |-> NilResp,
                   err |-> Error("recovered", Str("recovered from ") \o Render(r))]

-----------------------------------------------------------------------------
(* replySuccess, replyFailure *)

SuccessLine(rq, rs) ==
    rq.LogicalResourceId \o Str(": ") \o rq.RequestType
        \o Str(" succeeded. PhysicalResourceId=") \o rs.PhysicalResourceId
        \o Str("\n")

FailureLine(rq, reason) ==
    rq.LogicalResourceId \o Str(": ") \o rq.RequestType
        \o Str(" failed - ") \o reason \o Str("\n")

\* replySuccess with StackId and RequestId filled from each other's field
ReplySuccessInputSwapped(rq, rs) ==
    [ZeroReplyInput EXCEPT
        !.Status = StatusSuccess,
        !.PhysicalResourceId = rs.PhysicalResourceId,
        !.StackId = rq.RequestId,
        !.RequestId = rq.StackId,
        !.LogicalResourceId = rq.LogicalResourceId,
        !.Data = rs.Data]

\* replySuccess with the PhysicalResourceId line forgotten
ReplySuccessInputNoId(rq, rs) ==
    [ZeroReplyInput EXCEPT
        !.Status = StatusSuccess,
        !.StackId = rq.StackId,
        !.RequestId = rq.RequestId,
        !.LogicalResourceId = rq.LogicalResourceId,
        !.Data = rs.Data]

ReplySuccessInput(rq, rs) ==
    [ZeroReplyInput EXCEPT
        !.Status = StatusSuccess,
        !.PhysicalResourceId = rs.PhysicalResourceId,
        !.StackId = rq.StackId,
        !.RequestId = rq.RequestId,
        !.LogicalResourceId = rq.LogicalResourceId,
        !.Data = rs.Data]

\* replyFailure with the reason stored in PhysicalResourceId as well
ReplyFailureInputWithId(reason) ==
    [ZeroReplyInput EXCEPT !.Status = StatusFailed, !.Reason = reason,
                           !.PhysicalResourceId = reason]

\* replyFailure with the Reason line forgotten
ReplyFailureInputNoReason(reason) ==
    [ZeroReplyInput EXCEPT !.Status = StatusFailed]

ReplyFailureInput(reason) ==
    [ZeroReplyInput EXCEPT !.Status = StatusFailed, !.Reason = reason]

-----------------------------------------------------------------------------
(* Inputs: the requests the control plane encodes, and raw payloads *)

URLLocal == <<"http://", "localhost">>
URLOther == <<"https://", "cfn.example/2">>

PropsCompact == <<"{", "\"a\"", ":", "1", "}">>
PropsSpaced  == <<"{", "\"a\"", ":", Space, "2", "}">>
PropsBroken  == <<"{", BadToken>>

ReqCreate ==
    Request(RequestTypeCreate, URLLocal, Str("stack-1"), Str("req-1"),
            Str("Custom::Thing"), Str("Resource"), Empty, PropsCompact, Empty)
ReqUpdate ==
    Request(RequestTypeUpdate, URLOther, Str("stack-2"), Str("req-2"),
            Str("Custom::Thing"), Str("Other"), Str("blah"), PropsCompact,
            PropsCompact)
ReqTest ==
    [ZeroRequest EXCEPT !.LogicalResourceId = Str("Resource"),
                        !.RequestType = RequestTypeCreate,
                        !.ResponseURL = URLLocal]
ReqNoScheme ==
    [ReqCreate EXCEPT !.ResponseURL = Str("localhost")]
ReqBadURL ==
    [ReqCreate EXCEPT !.RequestType = RequestTypeDelete,
                      !.ResponseURL = URLLocal \o <<"/", BadEscape>>]
ReqSpaced ==
    [ReqUpdate EXCEPT !.ResourceProperties = PropsSpaced]
ReqBadUTF8 ==
    [ReqCreate EXCEPT !.PhysicalResourceId = <<"id-", BadByte>>]
ReqBroken ==
    [ReqCreate EXCEPT !.ResourceProperties = PropsBroken]

Requests ==
    {ReqCreate, ReqUpdate, ReqTest, ReqNoScheme, ReqBadURL, ReqSpaced,
     ReqBadUTF8, ReqBroken, ZeroRequest}

SyntaxPayload == [kind |-> "syntax", members |-> <<>>]
NullPayload   == [kind |-> "null", members |-> <<>>]
ArrayPayload  == [kind |-> "array", members |-> <<>>]
MistypedPayload ==
    [kind |-> "object",
     members |-> [RequestType |-> NumVal("5"), ResponseURL |-> StrVal(URLLocal)]]
\* a document no Go encoder wrote: spaced properties, a control character
HandWrittenPayload ==
    [kind |-> "object",
     members |-> [ResponseURL |-> StrVal(URLLocal \o Str(CtlChar)),
                  ResourceProperties |-> RawVal(PropsSpaced)]]

RawPayloads ==
    {SyntaxPayload, NullPayload, ArrayPayload, MistypedPayload,
     HandWrittenPayload}

\* what the hosting runtime hands to Invoke: json.Marshal(req) of a request
\* (handler_test.go: data, err := json.Marshal(req); a request that does not
\* encode never reaches Invoke), or bytes of any other origin
Sources(reqs, raws) ==
    {[encoded |-> TRUE, req |-> r, payload |-> MarshalRequest(r).doc] :
        r \in {x \in reqs : MarshalRequest(x).err.isNil}}
    \cup {[encoded |-> FALSE, req |-> ZeroRequest, payload |-> p] : p \in raws}

\* the payloads Spec hands to Invoke
Payloads == Sources(Requests, RawPayloads)

NoPayload == [kind |-> "none", members |-> <<>>]
NoOrig == [encoded |-> FALSE, req |-> ZeroRequest]

-----------------------------------------------------------------------------
(* State *)

\* context.Background(), as handler_test.go passes it
Background == [cancelled |-> FALSE, at |-> "never"]

\* a context cancelled while Invoke stood at `at`
Cancelled(at) == [cancelled |-> TRUE, at |-> at]

Init ==
    /\ handler \in {New("fn", opts) : opts \in OptionLists}
    /\ pc = [i \in Invs |-> "idle"]
    /\ payload = [i \in Invs |-> NoPayload]
    /\ orig = [i \in Invs |-> NoOrig]
    /\ req = [i \in Invs |-> ZeroRequest]
    /\ fnCalls = [i \in Invs |-> 0]
    /\ fnDid = [i \in Invs |-> NotCalled]
    /\ resp = [i \in Invs |-> NilResp]
    /\ err = [i \in Invs |-> NilErr]
    /\ input = [i \in Invs |-> ZeroReplyInput]
    /\ httpResp = [i \in Invs |-> NoHTTPResponse]
    /\ ret = [i \in Invs |-> NoReturn]
    /\ output = <<>>
    /\ puts = <<>>
    /\ events = [i \in Invs |-> <<>>]
    /\ ctx = [i \in Invs |-> Background]

Write(i, text) == [inv |-> i, text |-> text]

\* invocation i has done ev
Did(i, ev) == [events EXCEPT ![i] = @ \o ev]

\* Invoke is called with a payload and decodes it (handler.go 144-148)
Begin(i, srcs) ==
    /\ pc[i] = "idle"
    /\ \E s \in srcs :
         LET d == Unmarshal(s.payload)
         IN  /\ payload' = [payload EXCEPT ![i] = s.payload]
             /\ orig' = [orig EXCEPT ![i] = [encoded |-> s.encoded, req |-> s.req]]
             /\ req' = [req EXCEPT ![i] = d.req]
             /\ events' = Did(i, <<"decode">>)
             /\ IF ~d.err.isNil
                THEN /\ ret' = [ret EXCEPT ![i] = Return(d.err)]
                     /\ pc' = [pc EXCEPT ![i] = "done"]
                ELSE /\ ret' = ret
                     /\ pc' = [pc EXCEPT ![i] = "decoded"]
    /\ UNCHANGED <<handler, fnCalls, fnDid, resp, err, input, httpResp,
                   output, puts, ctx>>

\* resp, err := h.safeInvoke(ctx, &req) (handler.go 150, 128-141)
CallFn(i, behaviours) ==
    /\ pc[i] = "decoded"
    /\ \E b \in behaviours, legacy \in BOOLEAN :
         LET r == SafeInvoke(b, legacy)
         IN  /\ fnCalls' = [fnCalls EXCEPT ![i] = @ + 1]
             /\ fnDid' = [fnDid EXCEPT ![i] = b]
             /\ resp' = [resp EXCEPT ![i] = r.resp]
             /\ err' = [err EXCEPT ![i] = r.err]
    /\ pc' = [pc EXCEPT ![i] = "invoked"]
    /\ events' = Did(i, <<"call">>)
    /\ UNCHANGED <<handler, payload, orig, req, input, httpResp, ret,
                   output, puts, ctx>>

\* replySuccess / replyFailure with the Fprintf to h.output left out
ProgressWritesNone(i, line) == <<>>

\* fmt.Fprintf(h.output, ...): the progress line is one write (handler.go
\* 107, 120)
ProgressWrites(i, line) == <<Write(i, line)>>

\* the branch of Invoke (151-156) and replyFailure / replySuccess up to the
\* call of reply: the progress line and the replyInput.  replySuccess reads
\* resp.PhysicalResourceId first: a nil resp is a nil dereference, a panic
\* that nothing in Invoke recovers.
Report(i) ==
    /\ pc[i] = "invoked"
    /\ IF ~err[i].isNil
       THEN LET reason == ErrorString(err[i])
                w == ProgressWrites(i, FailureLine(req[i], reason))
            IN  /\ output' = output \o w
                /\ events' = Did(i, IF w = <<>> THEN <<>> ELSE <<"progress">>)
                /\ input' = [input EXCEPT ![i] = ReplyFailureInput(reason)]
                /\ pc' = [pc EXCEPT ![i] = "replying"]
       ELSE IF resp[i].isNil
       THEN /\ pc' = [pc EXCEPT ![i] = "panicked"]
            /\ UNCHANGED <<output, input, events>>
       ELSE LET w == ProgressWrites(i, SuccessLine(req[i], resp[i]))
            IN  /\ output' = output \o w
                /\ events' = Did(i, IF w = <<>> THEN <<>> ELSE <<"progress">>)
                /\ input' = [input EXCEPT ![i] = ReplySuccessInput(req[i], resp[i])]
                /\ pc' = [pc EXCEPT ![i] = "replying"]
    /\ UNCHANGED <<handler, payload, orig, req, fnCalls, fnDid, resp, err,
                   httpResp, ret, puts, ctx>>

\* the request the transport received, and the error it returned
Put(i, httpReq, e) == [inv |-> i, httpReq |-> httpReq, err |-> e]

\* reply that takes a response other than 200 for a failed delivery
ReplyResultCheckStatus(m, n, o) ==
    IF ~m.err.isNil THEN Error("reply", Str("unable to marshal reply"))
    ELSE IF ~n.err.isNil THEN n.err
    ELSE IF ~o.err.isNil THEN o.err
    ELSE IF ~o.resp.isNil /\ o.resp.Status # Str("200 OK")
    THEN Error("transport", Str("unexpected status ") \o o.resp.Status)
    ELSE NilErr

\* reply that ignores the error of RoundTrip
ReplyResultSwallow(m, n, o) ==
    IF ~m.err.isNil THEN Error("reply", Str("unable to marshal reply"))
    ELSE IF ~n.err.isNil THEN n.err
    ELSE NilErr

\* the error reply returns, from the results of json.Marshal, http.NewRequest
\* and RoundTrip (handler.go 82-97, 103)
ReplyResult(m, n, o) ==
    IF ~m.err.isNil THEN Error("reply", Str("unable to marshal reply"))
    ELSE IF ~n.err.isNil THEN n.err
    ELSE IF ~o.err.isNil THEN o.err
    ELSE NilErr

\* reply that tries again after a failed RoundTrip
AfterRoundTripRetry(e) == IF e.isNil THEN "responded" ELSE "replying"

\* where Invoke stands once reply has come back from RoundTrip: a failed
\* delivery ends the invocation
AfterRoundTrip(e) == IF e.isNil THEN "responded" ELSE "done"

\* Invoke that hands the provisioning error to its caller
InvokeErrorLeaky(fnErr, replyErr) ==
    IF replyErr.isNil THEN fnErr ELSE replyErr

\* reply that reads the request of the latest call from a field of the Handler
ReplyURLShared(i) ==
    LET begun == {j \in Invs : pc[j] # "idle"}
        last == CHOOSE j \in begun : \A k \in begun : k <= j
    IN  req[last].ResponseURL

\* the URL reply sends to: the ResponseURL of this call's own req
\* (handler.go 87)
ReplyURL(i) == req[i].ResponseURL

\* Invoke's second result: `return nil, h.replyFailure(...)` and
\* `return nil, h.replySuccess(...)` (handler.go 153, 156)
InvokeError(fnErr, replyErr) == replyErr

\* reply that replaces the configured transport once it has used it
HandlerAfterReplyReset(h) == [h EXCEPT !.transport = "http.DefaultTransport"]

\* the Handler after reply: reply reads h.transport and h.output and
\* assigns to no field (handler.go 81-104)
HandlerAfterReply(h) == h

\* reply up to the return of RoundTrip (handler.go 82-97)
Reply(i) ==
    /\ pc[i] = "replying"
    /\ LET m == MarshalReply(input[i])
           n == NewRequest(ReplyURL(i), m.body)
           unsent == TransportResponse(NoHTTPResponse)
       IN  IF ~m.err.isNil \/ ~n.err.isNil
           THEN /\ ret' = [ret EXCEPT ![i] =
                              Return(InvokeError(err[i], ReplyResult(m, n, unsent)))]
                /\ pc' = [pc EXCEPT ![i] = "done"]
                /\ UNCHANGED <<httpResp, puts, events>>
           ELSE \E o \in RoundTrip(handler.transport, n.httpReq) :
                  LET e == ReplyResult(m, n, o)
                      to == AfterRoundTrip(e)
                  IN  /\ puts' = Append(puts, Put(i, n.httpReq, o.err))
                      /\ events' = Did(i, <<"put">>)
                      /\ pc' = [pc EXCEPT ![i] = to]
                      /\ ret' = IF to = "done"
                                THEN [ret EXCEPT ![i] = Return(InvokeError(err[i], e))]
                                ELSE ret
                      /\ httpResp' = IF o.err.isNil
                                     THEN [httpResp EXCEPT ![i] = o.resp]
                                     ELSE httpResp
    /\ handler' = HandlerAfterReply(handler)
    /\ UNCHANGED <<payload, orig, req, fnCalls, fnDid, resp, err, input,
                   output, ctx>>

\* the rest of reply (handler.go 98-103): the status line and the body go to
\* h.output, reply returns nil and Invoke returns (nil, nil)
LogResponse(i) ==
    /\ pc[i] = "responded"
    /\ LET status == <<Write(i, httpResp[i].Status \o Str("\n"))>>
           body == IF Len(httpResp[i].Body) > 0
                   THEN <<Write(i, httpResp[i].Body)>> ELSE <<>>
       IN  /\ output' = output \o status \o body
           /\ events' = Did(i, IF body = <<>> THEN <<"status">> ELSE <<"status", "body">>)
    /\ ret' = [ret EXCEPT ![i] = Return(InvokeError(err[i], NilErr))]
    /\ pc' = [pc EXCEPT ![i] = "done"]
    /\ UNCHANGED <<handler, payload, orig, req, fnCalls, fnDid, resp, err,
                   input, httpResp, puts, ctx>>

-----------------------------------------------------------------------------
(* Spec: one invocation, as the hosting runtime runs the handler once per   *)
(* event, over all the inputs above                                         *)

\* the invocation Spec follows
First == CHOOSE i \in Invs : \A j \in Invs : i <= j

Next ==
    \/ Begin(First, Payloads)
    \/ CallFn(First, FnBehaviours)
    \/ Report(First)
    \/ Reply(First)
    \/ LogResponse(First)

Spec == Init /\ [][Next]_vars

-----------------------------------------------------------------------------
(* SpecConc: MaxInvocations concurrent calls of Invoke on one Handler,      *)
(* interleaved step by step                                                 *)

ConcRequests == {ReqCreate, ReqUpdate}
ConcPayloads == {SyntaxPayload}
ConcBehaviours == {FnOKData, FnErr}
ConcSources == Sources(ConcRequests, ConcPayloads)

\* the handler of handler_test.go: New(fn, WithTransport(rt), WithOutput(os.Stdout))
InitConc ==
    /\ Init
    /\ handler = New("fn", <<WithTransport("rt"), WithOutput("os.Stdout")>>)

NextConc ==
    \E i \in Invs :
        \/ Begin(i, ConcSources)
        \/ CallFn(i, ConcBehaviours)
        \/ Report(i)
        \/ Reply(i)
        \/ LogResponse(i)

SpecConc == InitConc /\ [][NextConc]_vars

-----------------------------------------------------------------------------
(* SpecLive: one invocation whose Context the caller may cancel, with the   *)
(* call of RoundTrip split into its start and its return                    *)

\* httpReq = httpReq.WithContext(ctx): the request carries the Context of
\* the invocation (handler.go 92)
RequestContext(c) == c

\* the transports that watch the Context of the request they carry:
\* http.DefaultTransport does, a caller-supplied RoundTripper need not
HonoursContext(transport) == transport = "http.DefaultTransport"

\* what a transport that watches the Context returns once it is cancelled
ContextCanceled == TransportError("context canceled")

\* the caller, or the hosting runtime, cancels the Context of invocation i
Cancel(i) ==
    /\ pc[i] \in {"decoded", "invoked", "replying", "inflight", "responded"}
    /\ ~ctx[i].cancelled
    /\ ctx' = [ctx EXCEPT ![i] = Cancelled(pc[i])]
    /\ UNCHANGED <<handler, pc, payload, orig, req, fnCalls, fnDid, resp, err,
                   input, httpResp, ret, output, puts, events>>

\* reply up to the call of RoundTrip (handler.go 82-94)
Send(i) ==
    /\ pc[i] = "replying"
    /\ LET m == MarshalReply(input[i])
           n == NewRequest(ReplyURL(i), m.body)
           unsent == TransportResponse(NoHTTPResponse)
       IN  IF ~m.err.isNil \/ ~n.err.isNil
           THEN /\ ret' = [ret EXCEPT ![i] =
                              Return(InvokeError(err[i], ReplyResult(m, n, unsent)))]
                /\ pc' = [pc EXCEPT ![i] = "done"]
                /\ UNCHANGED events
           ELSE /\ pc' = [pc EXCEPT ![i] = "inflight"]
                /\ events' = Did(i, <<"put">>)
                /\ UNCHANGED ret
    /\ handler' = HandlerAfterReply(handler)
    /\ UNCHANGED <<payload, orig, req, fnCalls, fnDid, resp, err, input,
                   httpResp, output, puts, ctx>>

\* RoundTrip has returned o to reply (handler.go 94-97)
Returned(i, o) ==
    LET m == MarshalReply(input[i])
        n == NewRequest(ReplyURL(i), m.body)
        e == ReplyResult(m, n, o)
        to == AfterRoundTrip(e)
    IN  /\ puts' = Append(puts, Put(i, n.httpReq, o.err))
        /\ pc' = [pc EXCEPT ![i] = to]
        /\ ret' = IF to = "done"
                  THEN [ret EXCEPT ![i] = Return(InvokeError(err[i], e))]
                  ELSE ret
        /\ httpResp' = IF o.err.isNil
                       THEN [httpResp EXCEPT ![i] = o.resp]
                       ELSE httpResp
        /\ UNCHANGED <<handler, payload, orig, req, fnCalls, fnDid, resp, err,
                       input, output, events, ctx>>

\* the transport answers or fails by itself.  A transport that watches the
\* Context sends nothing for a Context cancelled before the call; for one
\* cancelled during the call its answer can still win over the cancellation.
RoundTripReturns(i) ==
    /\ pc[i] = "inflight"
    /\ ~(/\ HonoursContext(handler.transport)
         /\ RequestContext(ctx[i]).cancelled
         /\ RequestContext(ctx[i]).at # "inflight")
    /\ \E o \in RoundTrip(handler.transport,
                          NewRequest(ReplyURL(i), MarshalReply(input[i]).body).httpReq) :
          Returned(i, o)

\* a transport that watches the Context gives the call up once the Context
\* of the request is cancelled
TransportAborts(i) ==
    /\ pc[i] = "inflight"
    /\ HonoursContext(handler.transport)
    /\ RequestContext(ctx[i]).cancelled
    /\ Returned(i, ContextCanceled)

\* the rest of reply (handler.go 98-103) under a Context that may be
\* cancelled: the body of a transport that watches the Context fails to
\* read once it is cancelled, io.Copy stops, its error is dropped and reply
\* returns nil all the same
CopyResponse(i) ==
    /\ pc[i] = "responded"
    /\ LET status == <<Write(i, httpResp[i].Status \o Str("\n"))>>
           cut == HonoursContext(handler.transport) /\ RequestContext(ctx[i]).cancelled
           body == IF Len(httpResp[i].Body) > 0 /\ ~cut
                   THEN <<Write(i, httpResp[i].Body)>> ELSE <<>>
       IN  /\ output' = output \o status \o body
           /\ events' = Did(i, IF body = <<>> THEN <<"status">> ELSE <<"status", "body">>)
    /\ ret' = [ret EXCEPT ![i] = Return(InvokeError(err[i], NilErr))]
    /\ pc' = [pc EXCEPT ![i] = "done"]
    /\ UNCHANGED <<handler, payload, orig, req, fnCalls, fnDid, resp, err,
                   input, httpResp, puts, ctx>>

LiveRequests == {ReqCreate, ReqUpdate, ReqNoScheme, ReqBadURL}
LiveBehaviours == {FnOKData, FnErr, FnPanicMap}
LiveSources == Sources(LiveRequests, ConcPayloads)

NextLive ==
    \/ Begin(First, LiveSources)
    \/ CallFn(First, LiveBehaviours)
    \/ Report(First)
    \/ Cancel(First)
    \/ Send(First)
    \/ RoundTripReturns(First)
    \/ TransportAborts(First)
    \/ CopyResponse(First)

\* the handler's own steps and the transport's reaction to a cancelled
\* Context do happen; the answer of the network and the return of the
\* provisioning function are not promised
SpecLive ==
    /\ Init
    /\ [][NextLive]_vars
    /\ WF_vars(Report(First))
    /\ WF_vars(Send(First))
    /\ WF_vars(TransportAborts(First))
    /\ WF_vars(CopyResponse(First))

-----------------------------------------------------------------------------
(* Properties *)

PutsOf(i) == {k \in DOMAIN puts : puts[k].inv = i}
WritesOf(i) == {k \in DOMAIN output : output[k].inv = i}

\* the provisioning function returned an outcome and no error
FnSucceeded(i) ==
    fnDid[i].kind = "return" /\ ~fnDid[i].resp.isNil /\ fnDid[i].err.isNil

\* the provisioning function returned an error
FnFailed(i) == fnDid[i].kind = "return" /\ ~fnDid[i].err.isNil

\* the transport returned a response to invocation i
GotResponse(i) == ~httpResp[i].isNil

\* invocation i has handed the serialization of its replyInput to the
\* transport, at its request's ResponseURL, and the transport answered
Delivered(i) ==
    \E k \in PutsOf(i) :
        /\ puts[k].err.isNil
        /\ puts[k].httpReq.Method = "PUT"
        /\ puts[k].httpReq.URL = req[i].ResponseURL
        /\ puts[k].httpReq.Body = MarshalReply(input[i]).body

\* the payload of invocation i is not a document of the Request shape
Undecodable(p) ==
    \/ p.kind \in {"syntax", "array"}
    \/ /\ p.kind = "object"
       /\ \E f \in DOMAIN p.members :
            \/ f \in StringFields /\ p.members[f].t # "string"
            \/ p.members[f].t = "raw" /\ ~ValidJSON(p.members[f].v)

\* C1: when the payload decodes, the provisioning function returns an
\* outcome with physical resource id p and the transport returns a response,
\* the report delivered has Status SUCCESS and PhysicalResourceId p, and
\* Invoke returns (nil, nil).
C1_SuccessReported ==
    \A i \in Invs :
        FnSucceeded(i) /\ GotResponse(i) =>
            /\ Delivered(i)
            /\ input[i].Status = StatusSuccess
            /\ input[i].PhysicalResourceId = fnDid[i].resp.PhysicalResourceId
            /\ pc[i] \in {"responded", "done"}
            /\ pc[i] = "done" => ret[i] = [returned |-> TRUE, payload |-> "nil", err |-> NilErr]

C1_Witness ==
    /\ pc[First] = "done"
    /\ fnDid[First] = FnOK
    /\ GotResponse(First)
    /\ Delivered(First)
    /\ ret[First].err.isNil

\* C2: when the payload decodes, the provisioning function returns an error
\* with message m and the transport returns a response, the report delivered
\* has Status FAILED and Reason m, and Invoke returns (nil, nil).
C2_FailureAbsorbed ==
    \A i \in Invs :
        FnFailed(i) /\ GotResponse(i) =>
            /\ Delivered(i)
            /\ input[i].Status = StatusFailed
            /\ input[i].Reason = fnDid[i].err.msg
            /\ pc[i] \in {"responded", "done"}
            /\ pc[i] = "done" => ret[i] = [returned |-> TRUE, payload |-> "nil", err |-> NilErr]

C2_Witness ==
    /\ pc[First] = "done"
    /\ fnDid[First] = FnErr
    /\ GotResponse(First)
    /\ input[First].Reason = Str("boom")
    /\ ret[First].err.isNil

\* C3: when the payload decodes and the provisioning function panics, the
\* panic does not leave Invoke; the report built is FAILED with a Reason that
\* describes the panic, and once the transport has answered Invoke returns a
\* nil error.
C3_PanicContained ==
    \A i \in Invs :
        fnDid[i].kind = "panic" =>
            /\ pc[i] # "panicked"
            /\ pc[i] \in {"replying", "responded", "done"} =>
                 /\ input[i].Status = StatusFailed
                 /\ Len(input[i].Reason) > 0
            /\ pc[i] = "done" /\ GotResponse(i) =>
                 Delivered(i) /\ ret[i].err.isNil

\* C4: a payload that does not decode makes Invoke return the decode error
\* without calling the provisioning function, the transport or the output.
C4_DecodeErrorShortCircuits ==
    \A i \in Invs :
        pc[i] # "idle" /\ Undecodable(payload[i]) =>
            /\ pc[i] = "done"
            /\ ret[i].returned
            /\ ret[i].err.kind = "decode"
            /\ ret[i].payload = "nil"
            /\ fnCalls[i] = 0
            /\ fnDid[i] = NotCalled
            /\ PutsOf(i) = {}
            /\ WritesOf(i) = {}

C4_Witness ==
    /\ pc[First] = "done"
    /\ payload[First] = MistypedPayload
    /\ ret[First].err.kind = "decode"
    /\ output = <<>>
    /\ puts = <<>>

\* C5: when the report cannot be serialized, the request cannot be built or
\* the transport returns an error, Invoke returns that error, whether the
\* provisioning function succeeded or failed, and never the provisioning
\* function's own error.
C5_DeliveryErrorReturned ==
    \A i \in Invs :
        pc[i] = "done" /\ fnCalls[i] > 0 =>
            /\ (\E k \in 1..Len(input[i].Data) : input[i].Data[k].v = Unsupported)
                  => ret[i].err = Error("reply", Str("unable to marshal reply"))
            /\ ParseURLFails(req[i].ResponseURL)
                  => ~ret[i].err.isNil /\ ret[i].err.kind \in {"reply", "request"}
            /\ \A k \in PutsOf(i) :
                  ~puts[k].err.isNil =>
                      /\ ret[i].err = puts[k].err
                      /\ ret[i].err # err[i]

C5_Witness ==
    /\ pc[First] = "done"
    /\ FnFailed(First)
    /\ \E k \in PutsOf(First) : ~puts[k].err.isNil /\ ret[First].err = puts[k].err

\* C6: an invocation makes at most one delivery attempt; a failed attempt is
\* not repeated.
C6_SingleAttempt ==
    \A i \in Invs :
        /\ Cardinality(PutsOf(i)) <= 1
        /\ (\E k \in PutsOf(i) : ~puts[k].err.isNil) => pc[i] = "done"

C6_Witness ==
    /\ pc[First] = "done"
    /\ Cardinality(PutsOf(First)) = 1
    /\ \E k \in PutsOf(First) : ~puts[k].err.isNil

\* C7: a non-nil error returned by Invoke is a decode error or a delivery
\* error; once the transport has answered, Invoke returns nil whatever the
\* provisioning function returned or raised.
C7_OnlyDecodeOrDeliveryErrors ==
    \A i \in Invs :
        /\ ret[i].returned /\ ~ret[i].err.isNil =>
              /\ ret[i].err.kind \in {"decode", "reply", "request", "transport"}
              /\ \/ Undecodable(payload[i])
                 \/ ~Delivered(i)
        /\ ret[i].returned /\ GotResponse(i) => ret[i].err.isNil

C7_Witness ==
    /\ ret[First].returned
    /\ ret[First].err.isNil
    /\ fnDid[First] = FnPanicMap
    /\ GotResponse(First)

\* the report invocation i owes, from the request encoded for it and from
\* what the provisioning function did in its own call
OwnReport(i) ==
    IF ~fnDid[i].err.isNil
    THEN [ZeroReplyInput EXCEPT !.Status = StatusFailed,
                                !.Reason = fnDid[i].err.msg]
    ELSE [Status |-> StatusSuccess, Reason |-> Empty,
          PhysicalResourceId |-> fnDid[i].resp.PhysicalResourceId,
          StackId |-> orig[i].req.StackId,
          RequestId |-> orig[i].req.RequestId,
          LogicalResourceId |-> orig[i].req.LogicalResourceId,
          Data |-> fnDid[i].resp.Data]

\* C8: with several invocations interleaved on one Handler, every request a
\* transport receives from invocation i goes to i's own ResponseURL and
\* carries the report of i's own request and provisioning outcome, and the
\* error i returns is the one its own delivery produced.
C8_InvocationsIsolated ==
    \A i \in Invs :
        /\ \A k \in PutsOf(i) :
              /\ orig[i].encoded
              /\ puts[k].httpReq.URL = orig[i].req.ResponseURL
              /\ puts[k].httpReq.Body = MarshalReply(OwnReport(i)).body
              /\ pc[i] = "done" => ret[i].err = puts[k].err
        /\ pc[i] = "done" /\ fnCalls[i] > 0 => Cardinality(PutsOf(i)) = 1

C8_Witness ==
    /\ \A i \in Invs : pc[i] = "done"
    /\ orig[1].req = ReqCreate /\ orig[2].req = ReqUpdate
    /\ fnDid[1] = FnErr /\ fnDid[2] = FnOKData
    /\ Len(puts) = MaxInvocations
    /\ output[1].inv = 1 /\ puts[1].inv = 2
    /\ ret[2].err.isNil /\ ~ret[1].err.isNil

\* C9: an outcome with NoEcho = true is reported differently from the same
\* outcome with NoEcho = false.
C9_NoEchoSignalled ==
    \A i \in Invs : \A k \in PutsOf(i) :
        FnSucceeded(i) /\ fnDid[i].resp.NoEcho =>
            puts[k].httpReq.Body #
                MarshalReply(ReplySuccessInput(req[i],
                    [fnDid[i].resp EXCEPT !.NoEcho = FALSE])).body

ValidUTF8(str) == \A k \in 1..Len(str) : str[k] # BadByte
CompactJSON(raw) == \A k \in 1..Len(raw) : raw[k] # Space

\* C10 as stated: the provisioning function receives a request equal to the
\* encoded one in every populated field.
C10_RoundTripExact ==
    \A i \in Invs :
        orig[i].encoded /\ fnCalls[i] > 0 =>
            \A f \in StringFields \cup RawFields :
                Len(orig[i].req[f]) > 0 => req[i][f] = orig[i].req[f]

\* C10 amended: the provisioning function receives a request equal to the
\* encoded one in every string field that is valid UTF-8 and every property
\* payload that is in compact form; fields empty in the original arrive
\* empty.
C10_RoundTripNormalised ==
    \A i \in Invs :
        orig[i].encoded /\ fnCalls[i] > 0 =>
            /\ \A f \in StringFields :
                  ValidUTF8(orig[i].req[f]) => req[i][f] = orig[i].req[f]
            /\ \A f \in RawFields :
                  CompactJSON(orig[i].req[f]) => req[i][f] = orig[i].req[f]

C10_Witness ==
    /\ fnCalls[First] = 1
    /\ orig[First].encoded
    /\ orig[First].req = ReqUpdate
    /\ req[First] = ReqUpdate

\* the provisioning function has been called and has returned or panicked
FnCalled(i) == fnCalls[i] > 0

\* Invoke has chosen replySuccess or replyFailure and built its replyInput
Reported(i) == pc[i] \in {"replying", "inflight", "responded", "done"} /\ FnCalled(i)

\* C11: whatever the provisioning function does (outcome, error, neither,
\* both, panic), exactly one of replySuccess and replyFailure is taken and no
\* panic leaves Invoke.
C11_OnePathNoFault ==
    \A i \in Invs :
        FnCalled(i) =>
            /\ pc[i] # "panicked"
            /\ pc[i] # "invoked" =>
                 /\ Reported(i)
                 /\ input[i].Status \in {StatusSuccess, StatusFailed}
                 /\ input[i].Status = StatusFailed <=> ~err[i].isNil

\* C12: safeInvoke returns exactly one non-nil result, whatever the
\* provisioning function does.
C12_TwoOutcomeResult ==
    \A i \in Invs :
        FnCalled(i) => (resp[i].isNil # err[i].isNil)

\* C13: a FAILED report has a non-empty Reason.
C13_FailedHasReason ==
    \A i \in Invs :
        input[i].Status = StatusFailed => Len(input[i].Reason) > 0

\* C14: a panic with an error value makes safeInvoke return that error; a
\* panic with any other value v makes it return an error "recovered from v";
\* the returned outcome is nil in both cases.
C14_FaultConversion ==
    \A i \in Invs :
        fnDid[i].kind = "panic" =>
            /\ resp[i].isNil
            /\ fnDid[i].value.t = "error" => err[i] = fnDid[i].value.err
            /\ fnDid[i].value.t = "string" =>
                 /\ ~err[i].isNil
                 /\ err[i].msg = Str("recovered from ") \o fnDid[i].value.v
            /\ fnDid[i].value.t = "nil" =>
                 /\ ~err[i].isNil
                 /\ \/ err[i].kind = "runtime"
                    \/ err[i].msg = Str("recovered from ") \o Str("<nil>")

\* C15: a report built by replyFailure carries Status FAILED and the Reason
\* and nothing else: PhysicalResourceId, StackId, RequestId,
\* LogicalResourceId and Data are empty whatever the request holds.
C15_FailureReportBare ==
    \A i \in Invs :
        Reported(i) /\ ~err[i].isNil =>
            /\ input[i] = [ZeroReplyInput EXCEPT !.Status = StatusFailed,
                                                 !.Reason = err[i].msg]
            /\ input[i].PhysicalResourceId = Empty
            /\ input[i].StackId = Empty
            /\ input[i].RequestId = Empty
            /\ input[i].LogicalResourceId = Empty
            /\ input[i].Data = <<>>
            /\ \A k \in PutsOf(i) :
                  /\ puts[k].httpReq.Body.StackId = Empty
                  /\ puts[k].httpReq.Body.Data.t = "null"

C15_Witness ==
    /\ pc[First] = "done"
    /\ fnDid[First] = FnErr
    /\ req[First] = ReqUpdate
    /\ Delivered(First)
    /\ input[First].StackId = Empty

\* C16: a report built by replySuccess echoes the request's StackId,
\* RequestId and LogicalResourceId, carries the outcome's Data and an empty
\* Reason, and is PUT to the request's ResponseURL.
C16_SuccessReportEchoes ==
    \A i \in Invs :
        Reported(i) /\ err[i].isNil =>
            /\ input[i].Status = StatusSuccess
            /\ input[i].StackId = req[i].StackId
            /\ input[i].RequestId = req[i].RequestId
            /\ input[i].LogicalResourceId = req[i].LogicalResourceId
            /\ input[i].Data = resp[i].Data
            /\ input[i].Reason = Empty
            /\ \A k \in PutsOf(i) :
                  /\ puts[k].httpReq.Method = "PUT"
                  /\ puts[k].httpReq.URL = req[i].ResponseURL
                  /\ puts[k].httpReq.Body = MarshalReply(input[i]).body

C16_Witness ==
    /\ pc[First] = "done"
    /\ fnDid[First] = FnOKData
    /\ req[First] = ReqUpdate
    /\ Delivered(First)
    /\ input[First].StackId = Str("stack-2")
    /\ input[First].RequestId = Str("req-2")

\* the writes of invocation i, in order
RECURSIVE TextsOf(_, _)
TextsOf(i, log) ==
    IF log = <<>> THEN <<>>
    ELSE (IF Head(log).inv = i THEN <<Head(log).text>> ELSE <<>>)
            \o TextsOf(i, Tail(log))

\* the last n elements of seq
Last(seq, n) == SubSeq(seq, Len(seq) - n + 1, Len(seq))

IsPrefix(a, b) == Len(a) <= Len(b) /\ a = SubSeq(b, 1, Len(a))

Count(seq, x) == Cardinality({k \in DOMAIN seq : seq[k] = x})

\* the order of what one invocation does
EventOrder == <<"decode", "call", "progress", "put", "status", "body">>

\* C18: within an invocation the events come in the order decode, call of
\* the provisioning function (once), progress line (once), delivery,
\* response status and body; no delivery precedes the call or the line.
C18_EventOrder ==
    \A i \in Invs :
        /\ \/ IsPrefix(events[i], EventOrder)
           \/ IsPrefix(events[i], SubSeq(EventOrder, 1, 5))
        /\ Count(events[i], "call") = fnCalls[i]
        /\ Count(events[i], "put") = Cardinality(PutsOf(i))
        /\ Len(SelectSeq(events[i], LAMBDA e : e \in {"progress", "status", "body"}))
              = Cardinality(WritesOf(i))
        /\ Reported(i) => fnCalls[i] = 1 /\ Count(events[i], "progress") = 1
        /\ pc[i] \notin {"idle", "done"} => fnCalls[i] <= 1
        /\ PutsOf(i) # {} => fnCalls[i] = 1 /\ Count(events[i], "progress") = 1

C18_Witness ==
    /\ pc[First] = "done"
    /\ events[First] = EventOrder
    /\ Len(output) = 3
    /\ Len(puts) = 1

\* C19: no step of any invocation changes the Handler's fn, output or
\* transport, which are the ones New set.
C19_ConfigUnchanged ==
    [][/\ handler' = handler
       /\ handler \in {New("fn", opts) : opts \in OptionLists}]_vars

C19_Witness ==
    /\ pc[First] = "done"
    /\ handler = New("fn", <<WithTransport("rt"), WithOutput("os.Stdout")>>)
    /\ handler.output = "os.Stdout"
    /\ Len(puts) = 1
    /\ Len(output) > 1

\* the Context of invocation i was cancelled while RoundTrip was running
CancelledInFlight(i) == ctx[i].cancelled /\ ctx[i].at = "inflight"

\* with a transport that watches the Context, a call of RoundTrip under a
\* cancelled Context comes back and Invoke returns
DefaultTransportReturns ==
    \A i \in Invs :
        (pc[i] = "inflight" /\ ctx[i].cancelled /\ HonoursContext(handler.transport))
            ~> (pc[i] = "done" /\ ret[i].returned)

\* whichever the transport, a call of RoundTrip under a cancelled Context
\* comes back
EveryTransportReturns ==
    \A i \in Invs : (pc[i] = "inflight" /\ ctx[i].cancelled) ~> (pc[i] = "done")

\* C20: an invocation whose Context was cancelled while the delivery was in
\* flight ends with a non-nil error from the delivery.
C20_CancelSurfacesAsError ==
    \A i \in Invs :
        pc[i] = "done" /\ CancelledInFlight(i) =>
            ret[i].returned /\ ~ret[i].err.isNil

====
